---- MODULE Spec2Model ----
(***************************************************************************)
(* Qtilities::Core::InstanceFactoryInfo (src/src/Core/source/              *)
(* IFactoryProvider.h): the descriptor record, its validity query and its  *)
(* binary codec over a QDataStream, modelled at the level of the bytes of  *)
(* the stream, and its XML codec over the attributes of a QDomElement.     *)
(*                                                                         *)
(* A QString is a record [null, chars]: QString() is the null string, and  *)
(* chars is the sequence of its UTF-16 code units.  A quint32 is the tuple *)
(* of its four bytes, most significant first, which is also the order in   *)
(* which QDataStream (big-endian by default) puts it on the wire.          *)
(***************************************************************************)
EXTENDS Integers, Sequences, FiniteSets, TLC

\* Longest string, in code units, that the inputs are drawn from.
MaxLen == 1

\* Number of descriptors written to one stream in SpecSeq.
MaxFrames == 2

\* Code units of the input strings: 'Q' (0x0051) and U+0142 (0x0142), so that
\* both bytes of a code unit and their order matter.
Alphabet == {81, 322}

\* Code unit of the input strings of the specifications whose state pairs two
\* independent descriptors (SpecCorrupt, SpecSeq).
ShortAlphabet == {322}

----------------------------------------------------------------------------
(* QString *)

QNull == [null |-> TRUE, chars |-> <<>>]

QStr(cs) == [null |-> FALSE, chars |-> cs]

\* QString::isEmpty(): true of the null string and of "".
isEmpty(s) == Len(s.chars) = 0

\* QString::operator==: compares the characters; QString() == QString("").
QStringEq(a, b) == a.chars = b.chars

RECURSIVE SeqsUpTo(_, _)
SeqsUpTo(A, n) ==
    IF n = 0 THEN {<<>>}
    ELSE LET S == SeqsUpTo(A, n - 1)
         IN  S \cup {Append(s, c) : s \in {t \in S : Len(t) = n - 1}, c \in A}

QStringsOver(A) == {QNull} \cup {QStr(cs) : cs \in SeqsUpTo(A, MaxLen)}

QStrings == QStringsOver(Alphabet)

ShortQStrings == QStringsOver(ShortAlphabet)

----------------------------------------------------------------------------
(* QDataStream: the device is a sequence of bytes, the cursor the number of *)
(* bytes consumed.                                                          *)

Marker == <<221, 221, 221, 221>>

Zero32 == <<0, 0, 0, 0>>

NullLength == <<255, 255, 255, 255>>

\* The quint32 of a number below 65536.
U32(n) == <<0, 0, n \div 256, n % 256>>

\* stream << (quint32) w
WriteU32(s, w) == s \o w

RECURSIVE CharBytes(_)
CharBytes(cs) ==
    IF cs = <<>> THEN <<>>
    ELSE <<Head(cs) \div 256, Head(cs) % 256>> \o CharBytes(Tail(cs))

\* Variant of WriteQString: the length is written in code units, not bytes.
WriteQString_LengthInChars(s, str) ==
    IF str.null THEN s \o NullLength
    ELSE s \o U32(Len(str.chars)) \o CharBytes(str.chars)

\* stream << QString: 0xFFFFFFFF for the null string, else the length in bytes
\* and the code units, each most significant byte first.
WriteQString(s, str) ==
    IF str.null THEN s \o NullLength
    ELSE s \o U32(2 * Len(str.chars)) \o CharBytes(str.chars)

\* stream >> quint32: the value is 0 when fewer than four bytes are left, and
\* the device is read to its end.
ReadU32(s, p) ==
    IF p + 4 <= Len(s) THEN [val |-> SubSeq(s, p + 1, p + 4), pos |-> p + 4]
    ELSE [val |-> Zero32, pos |-> Len(s)]

RECURSIVE BytesChars(_)
BytesChars(bs) ==
    IF Len(bs) < 2 THEN <<>>
    ELSE <<bs[1] * 256 + bs[2]>> \o BytesChars(SubSeq(bs, 3, Len(bs)))

\* stream >> QString: reads the length; 0xFFFFFFFF is the null string, 0 the
\* empty string, an odd length clears the string (ReadCorruptData) and reads
\* nothing more, a length that the device cannot supply clears the string
\* (ReadPastEnd) with the device read to its end.
ReadQString(s, p) ==
    LET n   == ReadU32(s, p)
        len == n.val[3] * 256 + n.val[4]
        big == n.val[1] # 0 \/ n.val[2] # 0
    IN  IF n.val = NullLength THEN [str |-> QNull, pos |-> n.pos]
        ELSE IF n.val = Zero32 THEN [str |-> QStr(<<>>), pos |-> n.pos]
        ELSE IF n.val[4] % 2 = 1 THEN [str |-> QNull, pos |-> n.pos]
        ELSE IF big \/ n.pos + len > Len(s) THEN [str |-> QNull, pos |-> Len(s)]
        ELSE [str |-> QStr(BytesChars(SubSeq(s, n.pos + 1, n.pos + len))),
              pos |-> n.pos + len]

----------------------------------------------------------------------------
(* InstanceFactoryInfo *)

\* InstanceFactoryInfo()
DefaultInfo ==
    [d_factory_tag |-> QNull, d_instance_tag |-> QNull, d_instance_name |-> QNull]

\* InstanceFactoryInfo(factory_tag, instance_tag, instance_name)
NewInfo(factory_tag, instance_tag, instance_name) ==
    [d_factory_tag   |-> factory_tag,
     d_instance_tag  |-> instance_tag,
     d_instance_name |-> instance_name]

\* operator= and the copy constructor
CopyInfo(ref) ==
    [d_factory_tag   |-> ref.d_factory_tag,
     d_instance_tag  |-> ref.d_instance_tag,
     d_instance_name |-> ref.d_instance_name]

\* Variant of isValid: the instance name is required as well.
isValid_NameRequired(info) ==
    IF isEmpty(info.d_factory_tag) THEN FALSE
    ELSE IF isEmpty(info.d_instance_tag) THEN FALSE
    ELSE IF isEmpty(info.d_instance_name) THEN FALSE
    ELSE TRUE

isValid(info) ==
    IF isEmpty(info.d_factory_tag) THEN FALSE
    ELSE IF isEmpty(info.d_instance_tag) THEN FALSE
    ELSE TRUE

\* Variant of exportBinary: the fields are written in declaration order.
exportBinary_DeclarationOrder(info, s) ==
    LET s1 == WriteU32(s, Marker)
        s2 == WriteQString(s1, info.d_factory_tag)
        s3 == WriteQString(s2, info.d_instance_tag)
        s4 == WriteQString(s3, info.d_instance_name)
        s5 == WriteU32(s4, Marker)
    IN  [ret |-> TRUE, stream |-> s5]

\* Variant of exportBinary: a descriptor that is not valid is refused.
exportBinary_Validating(info, s) ==
    LET s1 == WriteU32(s, Marker)
        s2 == WriteQString(s1, info.d_factory_tag)
        s3 == WriteQString(s2, info.d_instance_name)
        s4 == WriteQString(s3, info.d_instance_tag)
        s5 == WriteU32(s4, Marker)
    IN  IF isValid(info) THEN [ret |-> TRUE, stream |-> s5]
        ELSE [ret |-> FALSE, stream |-> s]

exportBinary(info, s) ==
    LET s1 == WriteU32(s, Marker)
        s2 == WriteQString(s1, info.d_factory_tag)
        s3 == WriteQString(s2, info.d_instance_name)
        s4 == WriteQString(s3, info.d_instance_tag)
        s5 == WriteU32(s4, Marker)
    IN  [ret |-> TRUE, stream |-> s5]

\* Variant of importBinary: the instance tag is read before the instance name.
importBinary_TagBeforeName(info, s, p) ==
    LET w1 == ReadU32(s, p)
        f  == ReadQString(s, w1.pos)
        t  == ReadQString(s, f.pos)
        n  == ReadQString(s, t.pos)
        w2 == ReadU32(s, n.pos)
        rd == [d_factory_tag   |-> f.str,
               d_instance_tag  |-> t.str,
               d_instance_name |-> n.str]
    IN  IF w1.val # Marker THEN [ret |-> FALSE, info |-> info, pos |-> w1.pos]
        ELSE IF w2.val # Marker THEN [ret |-> FALSE, info |-> rd, pos |-> w2.pos]
        ELSE [ret |-> TRUE, info |-> rd, pos |-> w2.pos]

\* Variant of importBinary: the fields are read before the start marker is
\* looked at.
importBinary_ReadFirst(info, s, p) ==
    LET w1 == ReadU32(s, p)
        f  == ReadQString(s, w1.pos)
        n  == ReadQString(s, f.pos)
        t  == ReadQString(s, n.pos)
        w2 == ReadU32(s, t.pos)
        rd == [d_factory_tag   |-> f.str,
               d_instance_tag  |-> t.str,
               d_instance_name |-> n.str]
    IN  IF w1.val # Marker THEN [ret |-> FALSE, info |-> rd, pos |-> w2.pos]
        ELSE IF w2.val # Marker THEN [ret |-> FALSE, info |-> rd, pos |-> w2.pos]
        ELSE [ret |-> TRUE, info |-> rd, pos |-> w2.pos]

\* Variant of importBinary: the end marker is read and not compared.
importBinary_NoEndCheck(info, s, p) ==
    LET w1 == ReadU32(s, p)
        f  == ReadQString(s, w1.pos)
        n  == ReadQString(s, f.pos)
        t  == ReadQString(s, n.pos)
        w2 == ReadU32(s, t.pos)
        rd == [d_factory_tag   |-> f.str,
               d_instance_tag  |-> t.str,
               d_instance_name |-> n.str]
    IN  IF w1.val # Marker THEN [ret |-> FALSE, info |-> info, pos |-> w1.pos]
        ELSE [ret |-> TRUE, info |-> rd, pos |-> w2.pos]

\* Variant of importBinary: the fields are assigned only when both markers
\* are found.
importBinary_Transactional(info, s, p) ==
    LET w1 == ReadU32(s, p)
        f  == ReadQString(s, w1.pos)
        n  == ReadQString(s, f.pos)
        t  == ReadQString(s, n.pos)
        w2 == ReadU32(s, t.pos)
        rd == [d_factory_tag   |-> f.str,
               d_instance_tag  |-> t.str,
               d_instance_name |-> n.str]
    IN  IF w1.val # Marker THEN [ret |-> FALSE, info |-> info, pos |-> w1.pos]
        ELSE IF w2.val # Marker THEN [ret |-> FALSE, info |-> info, pos |-> w2.pos]
        ELSE [ret |-> TRUE, info |-> rd, pos |-> w2.pos]

importBinary(info, s, p) ==
    LET w1 == ReadU32(s, p)
        f  == ReadQString(s, w1.pos)
        n  == ReadQString(s, f.pos)
        t  == ReadQString(s, n.pos)
        w2 == ReadU32(s, t.pos)
        rd == [d_factory_tag   |-> f.str,
               d_instance_tag  |-> t.str,
               d_instance_name |-> n.str]
    IN  IF w1.val # Marker THEN [ret |-> FALSE, info |-> info, pos |-> w1.pos]
        ELSE IF w2.val # Marker THEN [ret |-> FALSE, info |-> rd, pos |-> w2.pos]
        ELSE [ret |-> TRUE, info |-> rd, pos |-> w2.pos]

\* Field-for-field comparison of two descriptors with QString::operator==.
InfoEq(a, b) ==
    /\ QStringEq(a.d_factory_tag, b.d_factory_tag)
    /\ QStringEq(a.d_instance_tag, b.d_instance_tag)
    /\ QStringEq(a.d_instance_name, b.d_instance_name)

----------------------------------------------------------------------------
(* XML codec.  An element is [valid, attrs]: valid is false of a null       *)
(* handle, attrs maps the names of the attributes that are present to their *)
(* text.                                                                    *)

AttrNames == {"FactoryTag", "InstanceTag", "Name"}

\* The factory tag that stands in for a missing FactoryTag attribute.
DefaultFactoryTag == QStr(<<81>>)

NullElement == [valid |-> FALSE, attrs |-> <<>>]

FreshElement == [valid |-> TRUE, attrs |-> <<>>]

hasAttribute(el, name) == name \in DOMAIN el.attrs

\* QDomElement::attribute(name): the text, or an empty string when absent.
attribute(el, name) == IF hasAttribute(el, name) THEN el.attrs[name] ELSE QNull

\* QDomElement::setAttribute(name, value): an attribute holds text.
setAttribute(el, name, value) ==
    [el EXCEPT !.attrs = [a \in (DOMAIN el.attrs) \cup {name} |->
                            IF a = name THEN QStr(value.chars) ELSE el.attrs[a]]]

\* Variant of exportXML: the instance name is left out.
exportXML_NoName(info, el) ==
    IF ~el.valid THEN [ret |-> FALSE, node |-> el]
    ELSE LET e1 == setAttribute(el, "FactoryTag", info.d_factory_tag)
             e2 == setAttribute(e1, "InstanceTag", info.d_instance_tag)
         IN  [ret |-> TRUE, node |-> e2]

exportXML(info, el) ==
    IF ~el.valid THEN [ret |-> FALSE, node |-> el]
    ELSE LET e1 == setAttribute(el, "FactoryTag", info.d_factory_tag)
             e2 == setAttribute(e1, "InstanceTag", info.d_instance_tag)
             e3 == setAttribute(e2, "Name", info.d_instance_name)
         IN  [ret |-> TRUE, node |-> e3]

\* Variant of importXML: a missing factory tag attribute is a failure.
importXML_NoDefault(info, el) ==
    IF ~el.valid \/ ~hasAttribute(el, "FactoryTag") THEN [ret |-> FALSE, info |-> info]
    ELSE [ret  |-> TRUE,
          info |-> [d_factory_tag   |-> attribute(el, "FactoryTag"),
                    d_instance_tag  |-> attribute(el, "InstanceTag"),
                    d_instance_name |-> attribute(el, "Name")]]

importXML(info, el) ==
    IF ~el.valid THEN [ret |-> FALSE, info |-> info]
    ELSE [ret  |-> TRUE,
          info |-> [d_factory_tag   |-> IF hasAttribute(el, "FactoryTag")
                                        THEN attribute(el, "FactoryTag")
                                        ELSE DefaultFactoryTag,
                    d_instance_tag  |-> attribute(el, "InstanceTag"),
                    d_instance_name |-> attribute(el, "Name")]]

----------------------------------------------------------------------------
(* State *)

VARIABLES
    d,        \* the descriptor that is constructed and exported
    r,        \* the descriptor that imports
    stream,   \* the bytes of the device behind the QDataStream
    pos,      \* the read cursor: number of bytes consumed
    last,     \* the operation that ran last
    ret,      \* the value returned by the last export, import or isValid call
    mark,     \* history: the read cursor when the last import began
    before,   \* history: the fields of r when the last import began
    written,  \* history: the descriptors exported to the stream, in order
    ends,     \* history: the length of the stream after each export
    out,      \* history: the result of each import, in order
    damaged,  \* history: the stream was altered after it was written
    node      \* the QDomElement of the XML codec

vars ==
    <<d, r, stream, pos, last, ret, mark, before, written, ends, out, damaged, node>>

Init ==
    /\ d = DefaultInfo
    /\ r = DefaultInfo
    /\ stream = <<>>
    /\ pos = 0
    /\ last = "init"
    /\ ret = TRUE
    /\ mark = 0
    /\ before = DefaultInfo
    /\ written = <<>>
    /\ ends = <<>>
    /\ out = <<>>
    /\ damaged = FALSE
    /\ node = FreshElement

\* d = InstanceFactoryInfo(f, i, n), while fewer than cap descriptors are
\* written and nothing is read yet.
ConstructFrom(S, cap) ==
    /\ Len(written) < cap
    /\ last # "construct"
    /\ out = <<>>
    /\ ~damaged
    /\ \E f \in S, i \in S, n \in S : d' = NewInfo(f, i, n)
    /\ last' = "construct"
    /\ UNCHANGED <<r, stream, pos, ret, mark, before, written, ends, out, damaged, node>>

\* ret = d.isValid()
IsValid ==
    /\ last # "isValid"
    /\ ret' = isValid(d)
    /\ last' = "isValid"
    /\ UNCHANGED <<d, r, stream, pos, mark, before, written, ends, out, damaged, node>>

\* r = d (operator=), before anything is written.
Assign ==
    /\ written = <<>>
    /\ r' = CopyInfo(d)
    /\ last' = "assign"
    /\ UNCHANGED <<d, stream, pos, ret, mark, before, written, ends, out, damaged, node>>

\* ret = d.exportBinary(stream), while fewer than cap descriptors are written.
ExportBinaryUpTo(cap) ==
    /\ Len(written) < cap
    /\ out = <<>>
    /\ ~damaged
    /\ LET e == exportBinary(d, stream)
       IN  /\ stream' = e.stream
           /\ ret' = e.ret
           /\ ends' = Append(ends, Len(e.stream))
    /\ written' = Append(written, d)
    /\ last' = "export"
    /\ UNCHANGED <<d, r, pos, mark, before, out, damaged, node>>

\* ret = r.importBinary(stream), at most once more than there are frames.
ImportBinary ==
    /\ Len(out) <= Len(written)
    /\ LET i == importBinary(r, stream, pos)
       IN  /\ r' = i.info
           /\ ret' = i.ret
           /\ pos' = i.pos
           /\ out' = Append(out, i)
    /\ mark' = pos
    /\ before' = r
    /\ last' = "import"
    /\ UNCHANGED <<d, stream, written, ends, damaged, node>>

\* r = InstanceFactoryInfo(stream): the fields start out null, importBinary
\* runs and its return value is dropped (ret keeps it as history).
StreamConstruct ==
    /\ out = <<>>
    /\ LET i == importBinary(DefaultInfo, stream, pos)
       IN  /\ r' = i.info
           /\ ret' = i.ret
           /\ pos' = i.pos
           /\ out' = Append(out, i)
    /\ mark' = pos
    /\ before' = DefaultInfo
    /\ last' = "streamctor"
    /\ UNCHANGED <<d, stream, written, ends, damaged, node>>

\* Bytes that a damaged stream holds in place of the written ones.
DamageBytes == {0, 220, 255}

\* The stream handed to importBinary is not the one exportBinary wrote: it is
\* cut short.
Truncate ==
    /\ written # <<>>
    /\ out = <<>>
    /\ ~damaged
    /\ \E n \in 0..(Len(stream) - 1) : stream' = SubSeq(stream, 1, n)
    /\ damaged' = TRUE
    /\ last' = "damage"
    /\ UNCHANGED <<d, r, pos, ret, mark, before, written, ends, out, node>>

\* The stream handed to importBinary is not the one exportBinary wrote: one
\* byte of it is overwritten.
Overwrite ==
    /\ written # <<>>
    /\ out = <<>>
    /\ ~damaged
    /\ \E k \in 1..Len(stream), v \in DamageBytes :
          /\ stream[k] # v
          /\ stream' = [stream EXCEPT ![k] = v]
    /\ damaged' = TRUE
    /\ last' = "damage"
    /\ UNCHANGED <<d, r, pos, ret, mark, before, written, ends, out, node>>

----------------------------------------------------------------------------
(* Spec: one descriptor, built from the strings over Alphabet, is exported  *)
(* and imported back.                                                       *)

Construct == ConstructFrom(QStrings, 1)

ExportBinary == ExportBinaryUpTo(1)

Next ==
    \/ Construct
    \/ IsValid
    \/ ExportBinary
    \/ ImportBinary
    \/ StreamConstruct

Spec == Init /\ [][Next]_vars

(* SpecCorrupt: the receiving descriptor holds fields of its own, and the   *)
(* stream is damaged between the export and the import.                     *)

ConstructShort == ConstructFrom(ShortQStrings, 1)

NextCorrupt ==
    \/ ConstructShort
    \/ Assign
    \/ ExportBinary
    \/ Truncate
    \/ Overwrite
    \/ ImportBinary
    \/ StreamConstruct

SpecCorrupt == Init /\ [][NextCorrupt]_vars

(* SpecSeq: up to MaxFrames descriptors are exported to one stream, then    *)
(* imported one after the other.                                            *)

ConstructSeq == ConstructFrom(ShortQStrings, MaxFrames)

ExportBinarySeq == ExportBinaryUpTo(MaxFrames)

NextSeq ==
    \/ ConstructSeq
    \/ ExportBinarySeq
    \/ ImportBinary

SpecSeq == Init /\ [][NextSeq]_vars

(* SpecXML: a descriptor is exported to the attributes of an element and    *)
(* imported back, or imported from an element of a document written by      *)
(* other means.                                                             *)

\* ret = d.exportXML(doc, node)
ExportXML ==
    /\ written = <<>>
    /\ last \in {"construct", "element"}
    /\ LET e == exportXML(d, node)
       IN  /\ node' = e.node
           /\ ret' = e.ret
           /\ written' = IF e.ret THEN Append(written, d) ELSE written
    /\ last' = "exportXML"
    /\ UNCHANGED <<d, r, stream, pos, mark, before, ends, out, damaged>>

\* ret = r.importXML(doc, node)
ImportXML ==
    /\ last # "importXML"
    /\ LET i == importXML(r, node)
       IN  /\ r' = i.info
           /\ ret' = i.ret
    /\ before' = r
    /\ last' = "importXML"
    /\ UNCHANGED <<d, stream, pos, mark, written, ends, out, damaged, node>>

\* The element handed to the codec: a null handle, or an element of some
\* document carrying any of the three attributes.
Element ==
    /\ last \in {"init", "construct"}
    /\ \/ node' = NullElement
       \/ /\ last = "init"
          /\ \E S \in SUBSET AttrNames : \E f \in [S -> QStrings] :
                node' = [valid |-> TRUE, attrs |-> [a \in S |-> QStr(f[a].chars)]]
    /\ last' = "element"
    /\ UNCHANGED <<d, r, stream, pos, ret, mark, before, written, ends, out, damaged>>

ConstructXML ==
    /\ last = "init"
    /\ ConstructFrom(QStrings, 1)

NextXML ==
    \/ ConstructXML
    \/ Element
    \/ ExportXML
    \/ ImportXML

SpecXML == Init /\ [][NextXML]_vars

----------------------------------------------------------------------------
(* Properties *)

\* The last operation was an import: importBinary, or the stream constructor.
Imported == last \in {"import", "streamctor"}

\* The three fields hold no characters.
AllEmpty(info) ==
    /\ isEmpty(info.d_factory_tag)
    /\ isEmpty(info.d_instance_tag)
    /\ isEmpty(info.d_instance_name)

\* The three fields are pairwise different strings.
Distinct3(info) ==
    /\ ~QStringEq(info.d_factory_tag, info.d_instance_tag)
    /\ ~QStringEq(info.d_factory_tag, info.d_instance_name)
    /\ ~QStringEq(info.d_instance_tag, info.d_instance_name)

\* A whole string lies at offset p of s: four bytes of length, which say
\* null, or an even number of bytes that s holds.
WellFormedQString(s, p) ==
    /\ p + 4 <= Len(s)
    /\ LET n == SubSeq(s, p + 1, p + 4)
       IN  \/ n = NullLength
           \/ /\ n[1] = 0 /\ n[2] = 0 /\ n[4] % 2 = 0
              /\ p + 4 + n[3] * 256 + n[4] <= Len(s)

\* The items of the stream from offset p on, read as a frame.
Frame(s, p) ==
    LET w1 == ReadU32(s, p)
        f  == ReadQString(s, w1.pos)
        n  == ReadQString(s, f.pos)
        t  == ReadQString(s, n.pos)
        w2 == ReadU32(s, t.pos)
    IN  [start |-> w1, factory |-> f, name |-> n, tag |-> t, end |-> w2,
         whole |-> /\ p + 4 <= Len(s)
                   /\ WellFormedQString(s, w1.pos)
                   /\ WellFormedQString(s, f.pos)
                   /\ WellFormedQString(s, n.pos)
                   /\ t.pos + 4 <= Len(s)]

\* C1: a valid descriptor that is exported to an empty stream and imported
\* from it into a fresh descriptor comes back with success and with the same
\* factory tag, instance tag and instance name.
C1_BinaryRoundTrip ==
    (Imported /\ Len(written) = 1 /\ Len(out) = 1 /\ ~damaged
        /\ AllEmpty(before) /\ isValid(written[1]))
    => /\ ret = TRUE
       /\ QStringEq(r.d_factory_tag, written[1].d_factory_tag)
       /\ QStringEq(r.d_instance_tag, written[1].d_instance_tag)
       /\ QStringEq(r.d_instance_name, written[1].d_instance_name)

C1_Witness ==
    /\ last = "import" /\ Len(written) = 1 /\ Len(out) = 1
    /\ isValid(written[1]) /\ Distinct3(written[1])
    /\ ret = TRUE /\ InfoEq(r, written[1])

\* C2: isValid() is true exactly when the factory tag and the instance tag
\* both hold characters, and whatever the instance name is replaced by, the
\* answer is the same.
C2_ValidityLaw ==
    last = "isValid"
    => /\ ret = (d.d_factory_tag.chars # <<>> /\ d.d_instance_tag.chars # <<>>)
       /\ \A n \in QStrings : isValid([d EXCEPT !.d_instance_name = n]) = ret

C2_Witness ==
    /\ last = "isValid" /\ ret = TRUE
    /\ d.d_instance_name.chars = <<>>

\* C3: exportBinary returns success and appends five items and nothing else:
\* the word 0xDDDDDDDD, the factory tag, the instance name, the instance tag,
\* the word 0xDDDDDDDD.
C3_WireOrder ==
    last = "export"
    => LET k  == Len(written)
           p  == IF k = 1 THEN 0 ELSE ends[k - 1]
           fr == Frame(stream, p)
       IN  /\ ret = TRUE
           /\ fr.whole
           /\ fr.start.val = Marker
           /\ fr.factory.str = d.d_factory_tag
           /\ fr.name.str = d.d_instance_name
           /\ fr.tag.str = d.d_instance_tag
           /\ fr.end.val = Marker
           /\ fr.end.pos = Len(stream)

C3_Witness ==
    /\ last = "export" /\ ret = TRUE
    /\ Distinct3(d)
    /\ d.d_instance_name.chars # <<>> /\ d.d_instance_tag.chars # <<>>
    /\ Frame(stream, 0).name.str = d.d_instance_name

\* C4: when the first word importBinary reads is not 0xDDDDDDDD, it returns
\* failure and the three fields are what they were before the call, whatever
\* follows in the stream.
C4_StartSentinel ==
    (Imported /\ ReadU32(stream, mark).val # Marker)
    => (ret = FALSE /\ r = before)

C4_Witness ==
    /\ last = "import" /\ ret = FALSE /\ mark = 0
    /\ ReadU32(stream, 0).val # Marker
    /\ written # <<>>
    /\ Len(stream) = ends[1]
    /\ isValid(before)
    /\ LET fr == Frame(stream, 0)
       IN  /\ fr.whole
           /\ ~QStringEq(fr.factory.str, before.d_factory_tag)
           /\ ~QStringEq(fr.tag.str, before.d_instance_tag)
           /\ ~QStringEq(fr.name.str, before.d_instance_name)

\* C5: when the stream holds the word 0xDDDDDDDD, three whole strings and a
\* last word that is not 0xDDDDDDDD, importBinary returns failure.
C5_EndSentinel ==
    LET fr == Frame(stream, mark)
    IN  (Imported /\ fr.whole /\ fr.start.val = Marker /\ fr.end.val # Marker)
        => ret = FALSE

C5_Witness ==
    LET fr == Frame(stream, mark)
    IN  /\ last = "import" /\ ret = FALSE
        /\ fr.whole /\ fr.start.val = Marker /\ fr.end.val # Marker
        /\ fr.factory.str.chars # <<>> /\ fr.tag.str.chars # <<>>

\* C8: the codec does not validate. exportBinary succeeds for every
\* descriptor, and importing what it wrote into a fresh descriptor succeeds
\* and gives back the same fields and the same isValid() answer, also for a
\* descriptor with an empty tag.
C8_NoValidation ==
    /\ last = "export" => ret = TRUE
    /\ (Imported /\ Len(written) = 1 /\ Len(out) = 1 /\ AllEmpty(before))
       => /\ ret = TRUE
          /\ InfoEq(r, written[1])
          /\ isValid(r) = isValid(written[1])

C8_Witness ==
    /\ last = "import" /\ Len(written) = 1 /\ Len(out) = 1
    /\ isEmpty(written[1].d_factory_tag) /\ ~isEmpty(written[1].d_instance_tag)
    /\ ret = TRUE /\ InfoEq(r, written[1]) /\ ~isValid(r)

\* C9, as claimed: when importBinary fails on a descriptor whose fields were
\* all empty, isValid() of that descriptor is false afterwards.
C9_FailedImportInvalid ==
    (Imported /\ AllEmpty(before) /\ ret = FALSE) => ~isValid(r)

\* C9, amended: when importBinary fails on a descriptor whose fields were all
\* empty, then after a start marker mismatch isValid() is false, and after an
\* end marker mismatch the descriptor holds the three strings read from the
\* stream, so that isValid() is true exactly when the two tags read hold
\* characters.
C9_FailedImportFields ==
    (Imported /\ AllEmpty(before) /\ ret = FALSE)
    => LET fr == Frame(stream, mark)
       IN  IF fr.start.val # Marker THEN ~isValid(r)
           ELSE /\ fr.end.val # Marker
                /\ r.d_factory_tag = fr.factory.str
                /\ r.d_instance_tag = fr.tag.str
                /\ r.d_instance_name = fr.name.str
                /\ isValid(r) = (fr.factory.str.chars # <<>> /\ fr.tag.str.chars # <<>>)

C9_Witness ==
    /\ Imported /\ AllEmpty(before) /\ ret = FALSE
    /\ Frame(stream, mark).start.val = Marker
    /\ Frame(stream, mark).end.val # Marker
    /\ isValid(r)

\* C10: when descriptors d1..dk are exported to one stream one after the
\* other, the k imports that follow all succeed, give d1..dk in that order,
\* each stops where the matching export stopped, and the k-th leaves nothing
\* unread.
C10_FrameAlignment ==
    /\ \A k \in 1..Len(out) :
          k <= Len(written)
          => /\ out[k].ret = TRUE
             /\ InfoEq(out[k].info, written[k])
             /\ out[k].pos = ends[k]
    /\ (written # <<>> /\ Len(out) = Len(written)) => pos = Len(stream)

C10_Witness ==
    /\ Len(written) >= 2 /\ Len(out) = Len(written)
    /\ ~InfoEq(written[1], written[2])
    /\ ends[2] - ends[1] # ends[1]
    /\ InfoEq(r, written[Len(written)])
    /\ pos = Len(stream)

\* C6: importXML on an element without the factory tag attribute returns
\* success and leaves the default factory tag in the descriptor.
C6_XmlDefault ==
    (last = "importXML" /\ node.valid /\ ~hasAttribute(node, "FactoryTag"))
    => (ret = TRUE /\ r.d_factory_tag = DefaultFactoryTag)

C6_Witness ==
    /\ last = "importXML" /\ node.valid
    /\ ~hasAttribute(node, "FactoryTag") /\ hasAttribute(node, "InstanceTag")
    /\ ret = TRUE /\ r.d_factory_tag = DefaultFactoryTag

\* C7: a valid descriptor that is exported to a fresh element and imported
\* from it into a fresh descriptor comes back with success and with the same
\* three fields.
C7_XmlRoundTrip ==
    (last = "importXML" /\ written # <<>> /\ isValid(written[1]))
    => (ret = TRUE /\ InfoEq(r, written[1]))

C7_Witness ==
    /\ last = "importXML" /\ written # <<>>
    /\ isValid(written[1]) /\ Distinct3(written[1])
    /\ AllEmpty(before)
    /\ ret = TRUE /\ InfoEq(r, written[1])

====
